---- MODULE Spec2Model ----
(***************************************************************************)
(* Order orchestrator (services/order-orchestrator): idempotent batch      *)
(* intake, order validation, routing, broker placement, lifecycle updates  *)
(* and event publishing, as a state machine.                               *)
(*                                                                         *)
(* Optional (nullable) values are sets: {} is None, {v} is the value v.    *)
(***************************************************************************)
EXTENDS Integers, Sequences, FiniteSets, TLC

\* ------------------------------------------------------------------ bounds
MaxReq == 2          \* POST /orders requests in one behaviour
MaxOrders == 2       \* orders per batch request
MaxTicks == 2        \* clock ticks in one behaviour
MaxUpdates == 2      \* lifecycle calls in one behaviour

\* ------------------------------------------------------ program constants
min_lot_size == 1
max_order_value == 10000000
margin_limit == 1000000
mock_price == 1000
ttl == 86400
TickSeconds == 43200   \* seconds one clock tick of the model stands for

None == {}
Some(v) == {v}
Val(opt) == CHOOSE v \in opt : TRUE

\* Python's `x or d` on an optional number: None and 0 are falsy.
OrElse(opt, d) == IF opt = None \/ opt = Some(0) THEN d ELSE Val(opt)

\* Python's float modulo for a positive divisor (result has the divisor's sign).
PyMod(a, b) == a % b

\* ------------------------------------------------------------- validator
\* _check_margin: the reason when the mock margin limit is exceeded.
check_margin(order) ==
    LET estimated_value == order.qty * OrElse(order.price_limit, mock_price)
    IN  IF estimated_value > margin_limit THEN <<"margin">> ELSE <<>>

\* The errors list OrderValidator.validate accumulates, in rule order.
validate_errors(order, instrument_data) ==
    LET e1 == IF order.qty < min_lot_size THEN <<"min_lot">> ELSE <<>>
        e2 == IF order.price_limit # None /\ Val(order.price_limit) <= 0
              THEN <<"price_not_positive">> ELSE <<>>
        e3 == IF order.price_limit # None
                 /\ order.qty * Val(order.price_limit) > max_order_value
              THEN <<"max_order_value">> ELSE <<>>
        e4 == IF order.side \notin {"BUY", "SELL"} THEN <<"invalid_side">> ELSE <<>>
        e5 == check_margin(order)
        e6 == IF instrument_data # None
                 /\ PyMod(order.qty, Val(instrument_data)) # 0
              THEN <<"lot_multiple">> ELSE <<>>
    IN  e1 \o e2 \o e3 \o e4 \o e5 \o e6

\* A validator that stops at the first violated rule.
validate_FirstOnly(order, instrument_data) ==
    LET all == validate_errors(order, instrument_data)
    IN  IF all = <<>>
        THEN [valid |-> TRUE, errors |-> <<>>,
              estimated_value |-> order.qty * OrElse(order.price_limit, 0)]
        ELSE [valid |-> FALSE, errors |-> <<Head(all)>>, estimated_value |-> 0]

\* OrderValidator.validate: the returned dict, or the raised ValidationError
\* (valid = FALSE) carrying the joined errors.
validate(order, instrument_data) ==
    LET errors == validate_errors(order, instrument_data)
    IN  IF errors # <<>>
        THEN [valid |-> FALSE, errors |-> errors, estimated_value |-> 0]
        ELSE [valid |-> TRUE, errors |-> <<>>,
              estimated_value |-> order.qty * OrElse(order.price_limit, 0)]

\* ------------------------------------------------------------ vocabulary
Brokers == <<"zerodha-mock", "alpaca-mock">>
KnownBrokers == {Brokers[1], Brokers[2]}
Statuses == {"placed", "acked", "filled", "settled", "cancelled", "rejected"}
Req == 1 .. MaxReq

\* Order requests that pass the OrderCreate schema (qty > 0, price_limit
\* None or > 0, side BUY|SELL).
OrderBuy   == [instrument_id |-> 1, qty |-> 100, price_limit |-> None,
               side |-> "BUY", broker |-> None]
OrderSell  == [instrument_id |-> 2, qty |-> 50, price_limit |-> Some(2600),
               side |-> "SELL", broker |-> Some("alpaca-mock")]
OrderBig   == [instrument_id |-> 1, qty |-> 2000, price_limit |-> None,
               side |-> "BUY", broker |-> None]
OrderHuge  == [instrument_id |-> 2, qty |-> 2000, price_limit |-> Some(6000),
               side |-> "SELL", broker |-> None]
OrderInputs == {OrderBuy, OrderSell, OrderBig, OrderHuge}

\* OrderBatchCreate.orders: min_items = 1.
Bodies == UNION {[1 .. n -> OrderInputs] : n \in 1 .. MaxOrders}

VARIABLES
    now,            \* clock, in ticks
    pc,             \* pc[r]: position of request r in create_order_batch
    req,            \* req[r]: the request (Idempotency-Key header, body, key)
    loc,            \* loc[r]: locals of the handler (order_batch.id, i, routing, result)
    result,         \* result[r]: the HTTP response of request r
    hist,           \* hist[r]: what request r did (place_order calls, cache state seen)
    batches,        \* order_batches table: sequence of rows, id = index
    orders,         \* orders table, committed rows: id -> row
    txn,            \* txn[r]: rows flushed by r's session and not yet committed
    nextOrderId,    \* orders.id sequence
    cache,          \* redis: set of [key, value, expires]
    events,         \* events delivered to the Kafka topic
    kafka_enabled,  \* settings.kafka_enabled
    kafka_producer, \* _kafka_producer: "none", "started" or "unstarted"
    connectors,     \* _connectors: broker -> connector state
    nUpdates,       \* lifecycle calls made so far
    lastCall,       \* outcome of the last lifecycle call
    vin, vres,      \* OrderValidator.validate called directly: input, outcome
    rin, rres,      \* get_routing_strategy called directly: input, outcome
    gcall,          \* get_connector called directly: name, outcome
    report,         \* GET /reconcile/{batch_id}: the last response
    plog            \* connector.place_order called directly: the calls, in order

dbVars    == <<batches, orders, txn, nextOrderId>>
reqVars   == <<pc, req, loc, result, hist>>
kafkaVars == <<events, kafka_producer>>
lifeVars  == <<nUpdates, lastCall>>
callVars  == <<rin, rres, gcall, report, plog>>
valVars   == <<vin, vres, callVars>>
vars == <<now, pc, req, loc, result, hist, batches, orders, txn, nextOrderId,
          cache, events, kafka_enabled, kafka_producer, connectors,
          nUpdates, lastCall, vin, vres, rin, rres, gcall, report, plog>>

NoRequest == [header |-> None, body |-> <<>>, key |-> [hdr |-> None, sha |-> None]]
NoLocals  == [batch_id |-> 0, i |-> 0, routing |-> <<>>, created |-> <<>>,
              placed |-> <<>>]
NoResult  == [kind |-> "none", batch_id |-> 0, status |-> "", orders |-> <<>>,
              proposed_routing |-> <<>>, detail |-> <<>>]
NoHist    == [doneBefore |-> {}, checked |-> FALSE, checkUp |-> FALSE,
              checkAt |-> 0, hit |-> FALSE, storedAtCheck |-> {},
              stored |-> FALSE, storeUp |-> FALSE, storeAt |-> 0,
              placeCalls |-> 0]
NoCall    == [op |-> "none", order_id |-> 0, new_status |-> "", outcome |-> "",
              fill_price |-> None, fill_qty |-> None]
NoInput   == [instrument_id |-> 0, qty |-> 0, price_limit |-> None, side |-> "",
              broker |-> None]
NoOutcome == [valid |-> FALSE, errors |-> <<>>, estimated_value |-> 0]
NoRouting == [called |-> FALSE, orders |-> <<>>, preferred_broker |-> None]
NoGet     == [called |-> FALSE, broker_name |-> "", raised |-> FALSE]
NoReport  == [kind |-> "none", detail |-> "", batch_id |-> 0, total_orders |-> 0,
              filled_orders |-> 0, pending_orders |-> 0, cancelled_orders |-> 0,
              total_qty |-> 0, filled_qty |-> 0, total_value |-> 0,
              filled_value |-> 0, expected_pnl |-> None, actual_pnl |-> None]

InitCalls ==
    /\ now = 0
    /\ pc = [r \in Req |-> "idle"]
    /\ req = [r \in Req |-> NoRequest]
    /\ loc = [r \in Req |-> NoLocals]
    /\ result = [r \in Req |-> NoResult]
    /\ hist = [r \in Req |-> NoHist]
    /\ txn = [r \in Req |-> <<>>]
    /\ cache = {}
    /\ events = {}
    /\ kafka_producer = "none"
    /\ connectors = [b \in {} |-> 0]
    /\ nUpdates = 0
    /\ lastCall = NoCall
    /\ vin = [order |-> NoInput, instrument_data |-> None]
    /\ vres = NoOutcome
    /\ rin = NoRouting
    /\ rres = [raised |-> FALSE, routing |-> <<>>]
    /\ gcall = NoGet
    /\ report = NoReport
    /\ plog = <<>>

\* Empty tables.
InitCommon ==
    /\ InitCalls
    /\ batches = <<>>
    /\ orders = <<>>
    /\ nextOrderId = 1

\* settings.kafka_enabled defaults to True.
Init == InitCommon /\ kafka_enabled = TRUE

\* Either setting of kafka_enabled.
InitK == InitCommon /\ kafka_enabled \in BOOLEAN

\* ------------------------------------------------------ idempotency store
\* The datetime-typed values of an OrderRead: created_at, executed_at.
DatetimeValues(o) == {o.created_at} \cup o.executed_at

\* json.dumps(response): None stands for the TypeError json raises on a
\* value that is not a JSON type (a datetime); otherwise the text, which
\* json.loads turns back into the same dict.
json_dumps(response) ==
    IF \E i \in DOMAIN response.orders : DatetimeValues(response.orders[i]) # {}
    THEN None ELSE Some(response)

\* create_order_batch line 31: the header if given, else a hash of the body
\* (sha256 taken as injective on the canonical JSON of the body).
generate_idempotency_key(body) == [hdr |-> None, sha |-> Some(body)]
request_key(header, body) ==
    IF header # None THEN [hdr |-> header, sha |-> None]
    ELSE generate_idempotency_key(body)

\* A lookup that lets the cache client's exception escape.
check_idempotency_Raising(c, key, up) ==
    IF ~up THEN [raised |-> TRUE, value |-> None]
    ELSE [raised |-> FALSE, value |-> {e.value : e \in {x \in c : x.key = key}}]

\* check_idempotency: the cached response, or None on a miss or on any
\* exception of the cache client (up = FALSE).
check_idempotency(c, key, up) ==
    IF ~up THEN [raised |-> FALSE, value |-> None]
    ELSE [raised |-> FALSE, value |-> {e.value : e \in {x \in c : x.key = key}}]

\* store_idempotency: setex(key, ttl, json.dumps(response)); every exception
\* (cache client down, json.dumps TypeError) is logged and swallowed.
store_idempotency(c, key, response, up, t) ==
    IF ~up \/ json_dumps(response) = None
    THEN [raised |-> FALSE, cache |-> c]
    ELSE [raised |-> FALSE,
          cache |-> {x \in c : x.key # key}
                    \cup {[key |-> key, value |-> Val(json_dumps(response)),
                           expires |-> t * TickSeconds + ttl]}]

\* ---------------------------------------------------------------- routing
\* A routing that never looks at the preferred broker.
get_routing_strategy_DefaultOnly(os, preferred_broker) ==
    [i \in DOMAIN os |->
        [order_index |-> i - 1,
         broker |-> IF (i - 1) % 2 = 0 THEN "zerodha-mock" ELSE "alpaca-mock",
         reason |-> "Default routing strategy"]]

\* get_routing_strategy: one decision per order, order_index from 0.
get_routing_strategy(os, preferred_broker) ==
    [i \in DOMAIN os |->
        IF preferred_broker # None /\ Val(preferred_broker) \in KnownBrokers
        THEN [order_index |-> i - 1, broker |-> Val(preferred_broker),
              reason |-> "Preferred broker specified"]
        ELSE [order_index |-> i - 1,
              broker |-> IF (i - 1) % 2 = 0 THEN "zerodha-mock" ELSE "alpaca-mock",
              reason |-> "Default routing strategy"]]

\* ------------------------------------------------------------- connectors
NewConnector == [counter |-> 0, fills |-> {}]

\* get_connector: the registered instance, created on first use; an unknown
\* name raises ValueError and registers nothing.
get_connector(cs, broker_name) ==
    IF broker_name \in DOMAIN cs THEN [raised |-> FALSE, connectors |-> cs]
    ELSE IF broker_name \in KnownBrokers
         THEN [raised |-> FALSE, connectors |-> (broker_name :> NewConnector) @@ cs]
         ELSE [raised |-> TRUE, connectors |-> cs]

\* get_simulated_fill(order_id): the registered fill data, or None.
get_simulated_fill(conn, order_id) == {f \in conn.fills : f.order_id = order_id}

\* A place_order that builds the external id from the counter without
\* advancing it.
place_order_StaleCounter(conn, broker_name, instrument_id, t) ==
    LET n == conn.counter
        simulated_fill == get_simulated_fill(conn, instrument_id)
    IN  [conn |-> conn,
         result |-> IF simulated_fill # {}
                    THEN [success |-> TRUE, ext_order_id |-> Some(<<broker_name, n>>),
                          status |-> "filled",
                          fill_price |-> Some(Val(simulated_fill).fill_price),
                          fill_qty |-> Some(Val(simulated_fill).fill_qty),
                          timestamp |-> t]
                    ELSE [success |-> TRUE, ext_order_id |-> Some(<<broker_name, n>>),
                          status |-> "placed", fill_price |-> None,
                          fill_qty |-> None, timestamp |-> t]]

\* place_order of a mock connector (AlpacaMockConnector; the Zerodha mock's
\* source is absent and is taken to behave alike): counts, generates the external id, and
\* returns filled with the simulated fill registered under instrument_id,
\* else placed.  result.timestamp is the time of the call.
place_order(conn, broker_name, instrument_id, t) ==
    LET n == conn.counter + 1
        simulated_fill == get_simulated_fill(conn, instrument_id)
    IN  [conn |-> [conn EXCEPT !.counter = n],
         result |-> IF simulated_fill # {}
                    THEN [success |-> TRUE, ext_order_id |-> Some(<<broker_name, n>>),
                          status |-> "filled",
                          fill_price |-> Some(Val(simulated_fill).fill_price),
                          fill_qty |-> Some(Val(simulated_fill).fill_qty),
                          timestamp |-> t]
                    ELSE [success |-> TRUE, ext_order_id |-> Some(<<broker_name, n>>),
                          status |-> "placed", fill_price |-> None,
                          fill_qty |-> None, timestamp |-> t]]

\* ------------------------------------------------------- event publisher
\* A publisher without the try/except around the send.
publish_order_event_Unguarded(enabled, producer, startOutcome, sendOk) ==
    IF ~enabled THEN [outcome |-> "disabled", producer |-> producer]
    ELSE LET p == IF producer # "none" THEN producer
                  ELSE IF startOutcome = "ok" THEN "started"
                  ELSE IF startOutcome = "start_error" THEN "unstarted"
                  ELSE "none"
             got == IF producer = "none" /\ startOutcome # "ok" THEN "none" ELSE p
         IN  IF got = "none" THEN [outcome |-> "unavailable", producer |-> p]
             ELSE IF got = "started" /\ sendOk
                  THEN [outcome |-> "published", producer |-> p]
                  ELSE [outcome |-> "raised", producer |-> p]

\* publish_order_event with get_kafka_producer: returns without publishing
\* when Kafka is disabled or no producer is available; a failed send is
\* logged and swallowed.  A producer whose start() failed stays in
\* _kafka_producer (assigned before start) and is returned by later calls.
publish_order_event(enabled, producer, startOutcome, sendOk) ==
    IF ~enabled THEN [outcome |-> "disabled", producer |-> producer]
    ELSE LET p == IF producer # "none" THEN producer
                  ELSE IF startOutcome = "ok" THEN "started"
                  ELSE IF startOutcome = "start_error" THEN "unstarted"
                  ELSE "none"
             got == IF producer = "none" /\ startOutcome # "ok" THEN "none" ELSE p
         IN  IF got = "none" THEN [outcome |-> "unavailable", producer |-> p]
             ELSE IF got = "started" /\ sendOk
                  THEN [outcome |-> "published", producer |-> p]
                  ELSE [outcome |-> "swallowed", producer |-> p]

StartOutcomes == {"ok", "import_error", "start_error"}

\* -------------------------------------------------------------- database
\* An INSERT into order_batches without the unique index.
insert_batch_NoUnique(bs, row) ==
    [raised |-> FALSE, batches |-> Append(bs, [row EXCEPT !.id = Len(bs) + 1])]

\* INSERT into order_batches and commit: the unique index on idempotency_key
\* raises IntegrityError when a row already carries the key.
insert_batch(bs, row) ==
    IF \E j \in DOMAIN bs : bs[j].idempotency_key = row.idempotency_key
    THEN [raised |-> TRUE, batches |-> bs]
    ELSE [raised |-> FALSE, batches |-> Append(bs, [row EXCEPT !.id = Len(bs) + 1])]

\* ---------------------------------------------------- create_order_batch
\* The validation loop: the first ValidationError becomes the HTTP 400 and
\* ends the loop.
validate_batch(body) ==
    LET bad == {i \in DOMAIN body : ~validate(body[i], None).valid}
        first == CHOOSE i \in bad : \A j \in bad : i <= j
    IN  IF bad = {} THEN [ok |-> TRUE, detail |-> <<>>]
        ELSE [ok |-> FALSE, detail |-> validate(body[first], None).errors]

Fail(kind, detail) == [NoResult EXCEPT !.kind = kind, !.detail = detail]

\* A POST /orders request arrives (the body has passed the schema).
Submit(r, header, body) ==
    /\ pc[r] = "idle"
    /\ \A q \in Req : q < r => pc[q] # "idle"
    /\ pc' = [pc EXCEPT ![r] = "check"]
    /\ req' = [req EXCEPT ![r] = [header |-> header, body |-> body,
                                  key |-> request_key(header, body)]]
    /\ hist' = [hist EXCEPT ![r].doneBefore = {q \in Req : pc[q] = "done"}]
    /\ UNCHANGED <<now, loc, result, dbVars, cache, kafkaVars, kafka_enabled,
                   connectors, lifeVars, valVars>>

\* A handler that adds the OrderBatch row before it validates the orders.
Check_BatchFirst(r, up) ==
    /\ pc[r] = "check"
    /\  LET v == validate_batch(req[r].body)
            ins == insert_batch(batches,
                     [id |-> 0, user_id |-> 1, portfolio_id |-> 1,
                      orders_json |-> req[r].body, status |-> "pending",
                      idempotency_key |-> req[r].key])
        IN  /\ hist' = [hist EXCEPT ![r].checked = TRUE, ![r].checkUp = up,
                                    ![r].checkAt = now,
                                    ![r].storedAtCheck =
                                        {q \in Req : hist[q].stored}]
            /\ batches' = ins.batches
            /\ IF ~v.ok
               THEN /\ result' = [result EXCEPT ![r] = Fail("validation", v.detail)]
                    /\ pc' = [pc EXCEPT ![r] = "done"]
                    /\ loc' = loc
               ELSE /\ loc' = [loc EXCEPT ![r].routing =
                                   get_routing_strategy(req[r].body, None)]
                    /\ pc' = [pc EXCEPT ![r] = "create"]
                    /\ result' = result
    /\ UNCHANGED <<now, req, orders, txn, nextOrderId, cache, kafkaVars,
                   kafka_enabled, connectors, lifeVars, valVars>>

\* Lines 31-51: idempotency lookup, return of the cached response on a hit,
\* else validation of every order and routing.
Check(r, up) ==
    /\ pc[r] = "check"
    /\  LET c == check_idempotency(cache, req[r].key, up)
            v == validate_batch(req[r].body)
        IN  /\ hist' = [hist EXCEPT ![r].checked = TRUE, ![r].checkUp = up,
                                    ![r].checkAt = now,
                                    ![r].hit = (~c.raised /\ c.value # None),
                                    ![r].storedAtCheck =
                                        {q \in Req : hist[q].stored}]
            /\ IF c.raised
               THEN /\ result' = [result EXCEPT ![r] = Fail("cache_error", <<>>)]
                    /\ pc' = [pc EXCEPT ![r] = "done"]
                    /\ loc' = loc
               ELSE IF c.value # None
               THEN /\ result' = [result EXCEPT ![r] = Val(c.value)]
                    /\ pc' = [pc EXCEPT ![r] = "done"]
                    /\ loc' = loc
               ELSE IF ~v.ok
               THEN /\ result' = [result EXCEPT ![r] = Fail("validation", v.detail)]
                    /\ pc' = [pc EXCEPT ![r] = "done"]
                    /\ loc' = loc
               ELSE /\ loc' = [loc EXCEPT ![r].routing =
                                   get_routing_strategy(req[r].body, None)]
                    /\ pc' = [pc EXCEPT ![r] = "create"]
                    /\ result' = result
    /\ UNCHANGED <<now, req, dbVars, cache, kafkaVars, kafka_enabled,
                   connectors, lifeVars, valVars>>

\* Lines 54-63: the OrderBatch row is added and committed.
CreateBatch(r) ==
    /\ pc[r] = "create"
    /\ LET ins == insert_batch(batches,
                    [id |-> 0, user_id |-> 1, portfolio_id |-> 1,
                     orders_json |-> req[r].body, status |-> "pending",
                     idempotency_key |-> req[r].key])
       IN  IF ins.raised
           THEN /\ result' = [result EXCEPT ![r] = Fail("integrity_error", <<>>)]
                /\ pc' = [pc EXCEPT ![r] = "done"]
                /\ UNCHANGED <<batches, loc>>
           ELSE /\ batches' = ins.batches
                /\ loc' = [loc EXCEPT ![r].batch_id = Len(ins.batches), ![r].i = 1]
                /\ pc' = [pc EXCEPT ![r] = "place"]
                /\ result' = result
    /\ UNCHANGED <<now, req, hist, orders, txn, nextOrderId, cache, kafkaVars,
                   kafka_enabled, connectors, lifeVars, valVars>>

\* Lines 67-103 for order i: get_connector, connector.place_order, the Order
\* row added and flushed.  The call is awaited with no try/except: when it
\* cannot complete (fails), the exception ends the request and the session's
\* uncommitted rows are rolled back.
PlaceOrder(r, fails) ==
    /\ pc[r] = "place"
    /\ LET i == loc[r].i
           order_data == req[r].body[i]
           broker == loc[r].routing[i].broker
           g == get_connector(connectors, broker)
       IN   /\ hist' = [hist EXCEPT ![r].placeCalls = @ + 1]
            /\ IF g.raised \/ fails
               THEN /\ result' = [result EXCEPT ![r] = Fail("connector_error", <<>>)]
                    /\ pc' = [pc EXCEPT ![r] = "done"]
                    /\ txn' = [txn EXCEPT ![r] = <<>>]
                    /\ connectors' = g.connectors
                    /\ UNCHANGED <<loc, nextOrderId>>
               ELSE LET p == place_order(g.connectors[broker], broker,
                                         order_data.instrument_id, now)
                        order == [id |-> nextOrderId, portfolio_id |-> 1,
                                  broker |-> broker,
                                  instrument_id |-> order_data.instrument_id,
                                  qty |-> order_data.qty,
                                  price_limit |-> order_data.price_limit,
                                  side |-> order_data.side,
                                  status |-> p.result.status,
                                  created_at |-> now,
                                  executed_at |-> IF p.result.status = "filled"
                                                  THEN Some(p.result.timestamp)
                                                  ELSE None,
                                  ext_order_id |-> p.result.ext_order_id,
                                  fill_price |-> p.result.fill_price,
                                  fill_qty |-> p.result.fill_qty,
                                  batch_id |-> Some(loc[r].batch_id)]
                    IN  /\ connectors' = [g.connectors EXCEPT ![broker] = p.conn]
                        /\ txn' = [txn EXCEPT ![r] = (nextOrderId :> order) @@ @]
                        /\ nextOrderId' = nextOrderId + 1
                        /\ loc' = [loc EXCEPT ![r].created = Append(@, order),
                                              ![r].placed = Append(@, p.result)]
                        /\ pc' = [pc EXCEPT ![r] = "publish"]
                        /\ result' = result
    /\ UNCHANGED <<now, req, batches, orders, cache, kafkaVars, kafka_enabled,
                   lifeVars, valVars>>

\* Lines 106-120 for order i: the "order.placed" event, then the next order.
PublishPlaced(r, startOutcome, sendOk) ==
    /\ pc[r] = "publish"
    /\ LET i == loc[r].i
           order == loc[r].created[i]
       IN   LET e == publish_order_event(kafka_enabled, kafka_producer,
                                         startOutcome, sendOk)
            IN  /\ kafka_producer' = e.producer
                /\ events' = IF e.outcome = "published"
                             THEN events \cup {[event_type |-> "order.placed",
                                                order_id |-> order.id,
                                                status |-> loc[r].placed[i].status]}
                             ELSE events
                /\ IF e.outcome = "raised"
                   THEN /\ result' = [result EXCEPT ![r] = Fail("publish_error", <<>>)]
                        /\ pc' = [pc EXCEPT ![r] = "done"]
                        /\ txn' = [txn EXCEPT ![r] = <<>>]
                        /\ loc' = loc
                   ELSE /\ loc' = [loc EXCEPT ![r].i = i + 1]
                        /\ pc' = [pc EXCEPT ![r] =
                                   IF i = Len(req[r].body) THEN "commit" ELSE "place"]
                        /\ UNCHANGED <<result, txn>>
    /\ UNCHANGED <<now, req, hist, batches, orders, nextOrderId, cache,
                   kafka_enabled, connectors, lifeVars, valVars>>

\* A commit that loses the flushed order rows.
CommitBatch_NoRows(r) ==
    /\ pc[r] = "commit"
    /\ orders' = orders
    /\ txn' = [txn EXCEPT ![r] = <<>>]
    /\ batches' = [batches EXCEPT ![loc[r].batch_id].status = "processing"]
    /\ pc' = [pc EXCEPT ![r] = "store"]
    /\ UNCHANGED <<now, req, loc, result, hist, nextOrderId, cache, kafkaVars,
                   kafka_enabled, connectors, lifeVars, valVars>>

\* Lines 122-126: the order rows are committed, then the batch is marked
\* processing and committed.
CommitBatch(r) ==
    /\ pc[r] = "commit"
    /\ orders' = txn[r] @@ orders
    /\ txn' = [txn EXCEPT ![r] = <<>>]
    /\ batches' = [batches EXCEPT ![loc[r].batch_id].status = "processing"]
    /\ pc' = [pc EXCEPT ![r] = "store"]
    /\ UNCHANGED <<now, req, loc, result, hist, nextOrderId, cache, kafkaVars,
                   kafka_enabled, connectors, lifeVars, valVars>>

\* Lines 129-140: the response is built from the created orders, stored
\* under the key and returned.
Store(r, up) ==
    /\ pc[r] = "store"
    /\  LET response == [kind |-> "ok", batch_id |-> loc[r].batch_id,
                         status |-> batches[loc[r].batch_id].status,
                         orders |-> loc[r].created,
                         proposed_routing |-> loc[r].routing,
                         detail |-> <<>>]
            s == store_idempotency(cache, req[r].key, response, up, now)
        IN  /\ hist' = [hist EXCEPT ![r].stored = TRUE, ![r].storeUp = up,
                                    ![r].storeAt = now]
            /\ cache' = s.cache
            /\ result' = [result EXCEPT ![r] =
                            IF s.raised THEN Fail("cache_error", <<>>) ELSE response]
    /\ pc' = [pc EXCEPT ![r] = "done"]
    /\ UNCHANGED <<now, req, loc, dbVars, kafkaVars, kafka_enabled, connectors,
                   lifeVars, valVars>>

\* Time passes; redis drops the entries whose TTL has run out.
Tick ==
    /\ now < MaxTicks
    /\ now' = now + 1
    /\ cache' = {x \in cache : x.expires > (now + 1) * TickSeconds}
    /\ UNCHANGED <<reqVars, dbVars, kafkaVars, kafka_enabled, connectors,
                   lifeVars, valVars>>

HeaderOptions == {None, Some("k1")}

\* Concurrent submissions: any interleaving of MaxReq requests, the cache
\* and the brokers up or down at each call, Kafka delivering.
SpecBodies == {<<OrderBuy>>, <<OrderBig>>}

Next ==
    \/ \E r \in Req, header \in HeaderOptions, body \in SpecBodies :
          Submit(r, header, body)
    \/ \E r \in Req, up \in BOOLEAN : Check(r, up)
    \/ \E r \in Req : CreateBatch(r)
    \/ \E r \in Req, fails \in BOOLEAN : PlaceOrder(r, fails)
    \/ \E r \in Req : PublishPlaced(r, "ok", TRUE)
    \/ \E r \in Req : CommitBatch(r)
    \/ \E r \in Req, up \in BOOLEAN : Store(r, up)

Spec == Init /\ [][Next]_vars

\* ------------------------------------------------------ lifecycle manager
EventType(status) == "order." \o status

\* An update that stamps executed_at whatever the new status is.
update_order_status_StampAlways(os, order_id, new_status, fill_price, fill_qty, ext_order_id, t) ==
    IF order_id \notin DOMAIN os
    THEN [raised |-> TRUE, orders |-> os, old_status |-> None]
    ELSE [raised |-> FALSE,
          old_status |-> Some(os[order_id].status),
          orders |-> [os EXCEPT ![order_id] =
              [@ EXCEPT !.status = new_status,
                        !.fill_price = IF fill_price # None THEN fill_price ELSE @,
                        !.fill_qty = IF fill_qty # None THEN fill_qty ELSE @,
                        !.ext_order_id = IF ext_order_id # None THEN ext_order_id ELSE @,
                        !.executed_at = Some(t)]]]

\* update_order_status up to the commit: ValueError when the order does not
\* exist; otherwise the new status and the supplied fields are applied and
\* executed_at is stamped when the new status is filled.
update_order_status(os, order_id, new_status, fill_price, fill_qty, ext_order_id, t) ==
    IF order_id \notin DOMAIN os
    THEN [raised |-> TRUE, orders |-> os, old_status |-> None]
    ELSE [raised |-> FALSE,
          old_status |-> Some(os[order_id].status),
          orders |-> [os EXCEPT ![order_id] =
              [@ EXCEPT !.status = new_status,
                        !.fill_price = IF fill_price # None THEN fill_price ELSE @,
                        !.fill_qty = IF fill_qty # None THEN fill_qty ELSE @,
                        !.ext_order_id = IF ext_order_id # None THEN ext_order_id ELSE @,
                        !.executed_at = IF new_status = "filled" THEN Some(t) ELSE @]]]

\* A call that writes the new status into every order row.
UpdateStatus_Sweeping(order_id, new_status, fill_price, fill_qty, ext_order_id, startOutcome, sendOk) ==
    /\ nUpdates < MaxUpdates
    /\ nUpdates' = nUpdates + 1
    /\ orders' = [id \in DOMAIN orders |-> [orders[id] EXCEPT !.status = new_status]]
    /\ lastCall' = [op |-> "update_status", order_id |-> order_id,
                    new_status |-> new_status,
                    outcome |-> IF order_id \in DOMAIN orders THEN "ok" ELSE "not_found",
                    fill_price |-> fill_price, fill_qty |-> fill_qty]
    /\ UNCHANGED <<now, reqVars, batches, txn, nextOrderId, cache, kafka_enabled,
                   connectors, valVars, events, kafka_producer>>

\* A call of update_order_status: the change is committed, then the event
\* f"order.{new_status}" is published.
UpdateStatus(order_id, new_status, fill_price, fill_qty, ext_order_id, startOutcome, sendOk) ==
    /\ nUpdates < MaxUpdates
    /\ nUpdates' = nUpdates + 1
    /\ LET u == update_order_status(orders, order_id, new_status, fill_price,
                                    fill_qty, ext_order_id, now)
           e == publish_order_event(kafka_enabled, kafka_producer,
                                    startOutcome, sendOk)
       IN  IF u.raised
           THEN /\ lastCall' = [op |-> "update_status", order_id |-> order_id,
                                new_status |-> new_status, outcome |-> "not_found",
                                fill_price |-> fill_price, fill_qty |-> fill_qty]
                /\ UNCHANGED <<orders, events, kafka_producer>>
           ELSE /\ orders' = u.orders
                /\ kafka_producer' = e.producer
                /\ events' = IF e.outcome = "published"
                             THEN events \cup {[event_type |-> EventType(new_status),
                                                order_id |-> order_id,
                                                status |-> new_status]}
                             ELSE events
                /\ lastCall' = [op |-> "update_status", order_id |-> order_id,
                                new_status |-> new_status,
                                outcome |-> IF e.outcome = "raised"
                                            THEN "publish_error" ELSE "ok",
                                fill_price |-> fill_price, fill_qty |-> fill_qty]
    /\ UNCHANGED <<now, reqVars, batches, txn, nextOrderId, cache, kafka_enabled,
                   connectors, valVars>>

\* A simulate_fill that does not insist on a fill price.
simulate_fill_args_NoPriceCheck(os, order_id, fills) ==
    LET hits == {k \in DOMAIN fills : fills[k].order_id = order_id}
        fill_data == fills[CHOOSE k \in hits : \A j \in hits : k <= j]
    IN  IF order_id \notin DOMAIN os
        THEN [error |-> "not_found", fill_price |-> None, fill_qty |-> None]
        ELSE IF hits = {}
        THEN [error |-> "no_fill_data", fill_price |-> None, fill_qty |-> None]
        ELSE [error |-> "",
              fill_price |-> fill_data.fill_price,
              fill_qty |-> IF fill_data.has_qty THEN fill_data.fill_qty
                           ELSE Some(os[order_id].qty)]

\* simulate_fill up to the call of process_order_fill: the first entry of
\* fills whose order_id matches; fill_price = fill.get("fill_price"),
\* fill_qty = fill.get("fill_qty", order.qty).  An entry is
\* [order_id, fill_price, has_qty, fill_qty]: has_qty tells whether the key
\* fill_qty is present (its value may still be null).
simulate_fill_args(os, order_id, fills) ==
    LET hits == {k \in DOMAIN fills : fills[k].order_id = order_id}
        fill_data == fills[CHOOSE k \in hits : \A j \in hits : k <= j]
    IN  IF order_id \notin DOMAIN os
        THEN [error |-> "not_found", fill_price |-> None, fill_qty |-> None]
        ELSE IF hits = {}
        THEN [error |-> "no_fill_data", fill_price |-> None, fill_qty |-> None]
        ELSE IF fill_data.fill_price = None \/ fill_data.fill_price = Some(0)
        THEN [error |-> "fill_price_required", fill_price |-> None, fill_qty |-> None]
        ELSE [error |-> "",
              fill_price |-> fill_data.fill_price,
              fill_qty |-> IF fill_data.has_qty THEN fill_data.fill_qty
                           ELSE Some(os[order_id].qty)]

\* POST /orders/{order_id}/simulate_fill: 404 for an unknown order, 400 when
\* no entry names the order or the entry has no fill price; otherwise
\* process_order_fill (update_order_status to filled) and the response.
SimulateFill(order_id, fills, startOutcome, sendOk) ==
    /\ nUpdates < MaxUpdates
    /\ nUpdates' = nUpdates + 1
    /\ LET a == simulate_fill_args(orders, order_id, fills)
           u == update_order_status(orders, order_id, "filled", a.fill_price,
                                    a.fill_qty, None, now)
           e == publish_order_event(kafka_enabled, kafka_producer,
                                    startOutcome, sendOk)
       IN  IF a.error # ""
           THEN /\ lastCall' = [op |-> "simulate_fill", order_id |-> order_id,
                                new_status |-> "", outcome |-> a.error,
                                fill_price |-> None, fill_qty |-> None]
                /\ UNCHANGED <<orders, events, kafka_producer>>
           ELSE /\ orders' = u.orders
                /\ kafka_producer' = e.producer
                /\ events' = IF e.outcome = "published"
                             THEN events \cup {[event_type |-> EventType("filled"),
                                                order_id |-> order_id,
                                                status |-> "filled"]}
                             ELSE events
                /\ lastCall' = [op |-> "simulate_fill", order_id |-> order_id,
                                new_status |-> "filled",
                                outcome |-> IF e.outcome = "raised"
                                            THEN "publish_error" ELSE "ok",
                                fill_price |-> a.fill_price, fill_qty |-> a.fill_qty]
    /\ UNCHANGED <<now, reqVars, batches, txn, nextOrderId, cache, kafka_enabled,
                   connectors, valVars>>

\* set_simulated_fill: the entry under order_id is set or replaced.
set_simulated_fill(conn, order_id, fill_price, fill_qty) ==
    [conn EXCEPT !.fills = {f \in @ : f.order_id # order_id}
                           \cup {[order_id |-> order_id, fill_price |-> fill_price,
                                  fill_qty |-> fill_qty]}]

\* get_connector(broker_name).set_simulated_fill(order_id, fill_price, fill_qty)
SetSimulatedFill(broker_name, order_id, fill_price, fill_qty) ==
    /\ LET g == get_connector(connectors, broker_name)
       IN  /\ ~g.raised
           /\ connectors' = [g.connectors EXCEPT ![broker_name] =
                   set_simulated_fill(@, order_id, fill_price, fill_qty)]
    /\ UNCHANGED <<now, reqVars, dbVars, cache, kafkaVars, kafka_enabled,
                   lifeVars, valVars>>

\* The fills lists sent to simulate_fill for order order_id.
FillRequests(order_id) ==
    { <<>>,
      <<[order_id |-> order_id, fill_price |-> Some(2500), has_qty |-> TRUE,
         fill_qty |-> Some(60)]>>,
      <<[order_id |-> order_id, fill_price |-> Some(2500), has_qty |-> FALSE,
         fill_qty |-> None]>>,
      <<[order_id |-> order_id, fill_price |-> Some(2500), has_qty |-> TRUE,
         fill_qty |-> None]>>,
      <<[order_id |-> order_id, fill_price |-> None, has_qty |-> TRUE,
         fill_qty |-> Some(60)]>>,
      <<[order_id |-> order_id + 1, fill_price |-> Some(2500), has_qty |-> TRUE,
         fill_qty |-> Some(60)]>> }

FillPrices == {None, Some(2500)}
FillQtys == {None, Some(100)}
ExtIds == {None, Some(<<"EXT", 7>>)}

\* One submission with the cache, the brokers and Kafka up, then any
\* lifecycle calls.
NextL ==
    \/ Submit(1, Some("k1"), <<OrderBuy, OrderSell>>)
    \/ Check(1, TRUE)
    \/ CreateBatch(1)
    \/ PlaceOrder(1, FALSE)
    \/ PublishPlaced(1, "ok", TRUE)
    \/ CommitBatch(1)
    \/ Store(1, TRUE)
    \/ \E order_id \in DOMAIN orders \cup {nextOrderId}, new_status \in Statuses,
          fill_price \in FillPrices, fill_qty \in FillQtys, ext_order_id \in ExtIds :
          UpdateStatus(order_id, new_status, fill_price, fill_qty, ext_order_id,
                       "ok", TRUE)

SpecL == Init /\ [][NextL]_vars

\* One single-order submission, possibly after a simulated fill was registered
\* for its instrument, then status updates and simulate_fill requests.
NextF ==
    \/ SetSimulatedFill("zerodha-mock", 1, 2400, 100)
    \/ Submit(1, Some("k1"), <<OrderBuy>>)
    \/ Check(1, TRUE)
    \/ CreateBatch(1)
    \/ PlaceOrder(1, FALSE)
    \/ PublishPlaced(1, "ok", TRUE)
    \/ CommitBatch(1)
    \/ Store(1, TRUE)
    \/ \E order_id \in DOMAIN orders \cup {nextOrderId}, new_status \in Statuses,
          fill_price \in FillPrices, fill_qty \in FillQtys, ext_order_id \in ExtIds :
          UpdateStatus(order_id, new_status, fill_price, fill_qty, ext_order_id,
                       "ok", TRUE)
    \/ \E order_id \in DOMAIN orders \cup {nextOrderId} :
          \E fills \in FillRequests(order_id) :
             SimulateFill(order_id, fills, "ok", TRUE)

SpecF == Init /\ [][NextF]_vars

\* One submission, then acknowledgments and fills (process_order_acknowledgment,
\* process_order_fill), Kafka enabled or not, starting or not, sending or not.
NextK ==
    \/ Submit(1, Some("k1"), <<OrderBuy, OrderSell>>)
    \/ Check(1, TRUE)
    \/ CreateBatch(1)
    \/ PlaceOrder(1, FALSE)
    \/ \E startOutcome \in StartOutcomes, sendOk \in BOOLEAN :
          PublishPlaced(1, startOutcome, sendOk)
    \/ CommitBatch(1)
    \/ Store(1, TRUE)
    \/ \E order_id \in DOMAIN orders, startOutcome \in StartOutcomes,
          sendOk \in BOOLEAN :
          UpdateStatus(order_id, "acked", None, None, None, startOutcome, sendOk)
    \/ \E order_id \in DOMAIN orders, startOutcome \in StartOutcomes,
          sendOk \in BOOLEAN :
          UpdateStatus(order_id, "filled", Some(2500), Some(100), None,
                       startOutcome, sendOk)

SpecK == InitK /\ [][NextK]_vars

\* Submissions of different valid bodies, with or without the key header.
KeyBodies == {<<OrderBuy>>, <<OrderSell>>}

NextI ==
    \/ \E r \in Req, header \in HeaderOptions, body \in KeyBodies :
          Submit(r, header, body)
    \/ \E r \in Req, up \in BOOLEAN : Check(r, up)
    \/ \E r \in Req : CreateBatch(r)
    \/ \E r \in Req : PlaceOrder(r, FALSE)
    \/ \E r \in Req : PublishPlaced(r, "ok", TRUE)
    \/ \E r \in Req : CommitBatch(r)
    \/ \E r \in Req, up \in BOOLEAN : Store(r, up)

SpecI == Init /\ [][NextI]_vars

\* One submission of any body under every environment.
NextB ==
    \/ \E body \in Bodies : Submit(1, Some("k1"), body)
    \/ \E up \in BOOLEAN : Check(1, up)
    \/ CreateBatch(1)
    \/ \E fails \in BOOLEAN : PlaceOrder(1, fails)
    \/ \E startOutcome \in StartOutcomes, sendOk \in BOOLEAN :
          PublishPlaced(1, startOutcome, sendOk)
    \/ CommitBatch(1)
    \/ \E up \in BOOLEAN : Store(1, up)

SpecB == InitK /\ [][NextB]_vars

\* Submissions of one body under one key while time passes.
NextT ==
    \/ Tick
    \/ \E r \in Req : Submit(r, Some("k1"), <<OrderBuy>>)
    \/ \E r \in Req, up \in BOOLEAN : Check(r, up)
    \/ \E r \in Req : CreateBatch(r)
    \/ \E r \in Req : PlaceOrder(r, FALSE)
    \/ \E r \in Req : PublishPlaced(r, "ok", TRUE)
    \/ \E r \in Req : CommitBatch(r)
    \/ \E r \in Req, up \in BOOLEAN : Store(r, up)

SpecT == Init /\ [][NextT]_vars

\* OrderValidator.validate called directly on any order.
ValidatorQtys == {0, 1, 3, 2000}
ValidatorPrices == {None, Some(-5), Some(0), Some(400), Some(600), Some(6000)}
ValidatorSides == {"BUY", "SELL", "HOLD"}
LotSizes == {None, Some(1), Some(2)}
ValidatorInputs ==
    [instrument_id : {1}, qty : ValidatorQtys, price_limit : ValidatorPrices,
     side : ValidatorSides, broker : {None}]

Validate(order, instrument_data) ==
    /\ vin' = [order |-> order, instrument_data |-> instrument_data]
    /\ vres' = validate(order, instrument_data)
    /\ UNCHANGED <<now, reqVars, dbVars, cache, kafkaVars, kafka_enabled,
                   connectors, lifeVars, callVars>>

NextV == \E order \in ValidatorInputs, instrument_data \in LotSizes :
            Validate(order, instrument_data)

SpecV == Init /\ [][NextV]_vars

\* ------------------------------------------------------------- reconcile
\* Python's sum over the values of f.
RECURSIVE SumOf(_)
SumOf(f) ==
    IF DOMAIN f = {} THEN 0
    ELSE LET x == CHOOSE x \in DOMAIN f : TRUE
         IN  f[x] + SumOf([y \in DOMAIN f \ {x} |-> f[y]])

\* A count that ignores the status.
count_status_Any(os, ids, sts) == SumOf([id \in ids |-> 1])

\* sum(1 for o in orders if o.status in sts)
count_status(os, ids, sts) == SumOf([id \in {x \in ids : os[x].status \in sts} |-> 1])

\* sum((o.fill_price or 0) * (o.fill_qty or 0) for o in ids)
fill_value(os, ids) ==
    SumOf([id \in ids |-> OrElse(os[id].fill_price, 0) * OrElse(os[id].fill_qty, 0)])

\* sum((o.price_limit or 0) * o.qty for o in ids)
limit_value(os, ids) ==
    SumOf([id \in ids |-> OrElse(os[id].price_limit, 0) * os[id].qty])

\* A P&L computed for one-sided batches too.
actual_pnl_Always(os, buy_orders, sell_orders) ==
    Some(fill_value(os, sell_orders) - fill_value(os, buy_orders))

\* actual_pnl: sell_value - buy_value when both lists are non-empty, else None.
actual_pnl(os, buy_orders, sell_orders) ==
    IF buy_orders # {} /\ sell_orders # {}
    THEN Some(fill_value(os, sell_orders) - fill_value(os, buy_orders))
    ELSE None

\* An expected P&L over the filled quantity instead of the ordered quantity.
expected_pnl_FillQty(os, buy_orders, sell_orders) ==
    IF buy_orders # {} /\ sell_orders # {}
    THEN Some(SumOf([id \in sell_orders |->
                       OrElse(os[id].price_limit, 0) * OrElse(os[id].fill_qty, 0)])
              - SumOf([id \in buy_orders |->
                       OrElse(os[id].price_limit, 0) * OrElse(os[id].fill_qty, 0)]))
    ELSE None

\* expected_pnl: expected_sell_value - expected_buy_value over price_limit
\* and qty, when both lists are non-empty, else None.
expected_pnl(os, buy_orders, sell_orders) ==
    IF buy_orders # {} /\ sell_orders # {}
    THEN Some(limit_value(os, sell_orders) - limit_value(os, buy_orders))
    ELSE None

\* Lines 38-82: the report over the orders ids of the batch.
reconciliation_report(os, ids, batch_id) ==
    LET filled == {id \in ids : os[id].status = "filled"}
        buy_orders == {id \in filled : os[id].side = "BUY"}
        sell_orders == {id \in filled : os[id].side = "SELL"}
    IN  [kind |-> "report", detail |-> "", batch_id |-> batch_id,
         total_orders |-> Cardinality(ids),
         filled_orders |-> count_status(os, ids, {"filled"}),
         pending_orders |-> count_status(os, ids, {"placed", "acked"}),
         cancelled_orders |-> count_status(os, ids, {"cancelled"}),
         total_qty |-> SumOf([id \in ids |-> os[id].qty]),
         filled_qty |-> SumOf([id \in filled |-> OrElse(os[id].fill_qty, 0)]),
         total_value |-> limit_value(os, ids),
         filled_value |-> fill_value(os, filled),
         expected_pnl |-> expected_pnl(os, buy_orders, sell_orders),
         actual_pnl |-> actual_pnl(os, buy_orders, sell_orders)]

\* The orders of the batch: select(Order).where(Order.batch_id == batch_id).
orders_of_batch(os, batch_id) == {id \in DOMAIN os : os[id].batch_id = Some(batch_id)}

\* A reconcile that reports on a batch without orders.
reconcile_batch_ZeroReport(bs, os, batch_id) ==
    IF batch_id \notin DOMAIN bs
    THEN [NoReport EXCEPT !.kind = "not_found", !.detail = "batch", !.batch_id = batch_id]
    ELSE reconciliation_report(os, orders_of_batch(os, batch_id), batch_id)

\* reconcile_batch: 404 when the batch does not exist, 404 when no order
\* references it, else the report.
reconcile_batch(bs, os, batch_id) ==
    IF batch_id \notin DOMAIN bs
    THEN [NoReport EXCEPT !.kind = "not_found", !.detail = "batch", !.batch_id = batch_id]
    ELSE IF orders_of_batch(os, batch_id) = {}
    THEN [NoReport EXCEPT !.kind = "not_found", !.detail = "orders", !.batch_id = batch_id]
    ELSE reconciliation_report(os, orders_of_batch(os, batch_id), batch_id)

\* GET /reconcile/{batch_id}
Reconcile(batch_id) ==
    /\ report' = reconcile_batch(batches, orders, batch_id)
    /\ UNCHANGED <<now, reqVars, dbVars, cache, kafkaVars, kafka_enabled,
                   connectors, lifeVars, vin, vres, rin, rres, gcall, plog>>

\* Order rows as submissions, status updates and fills leave them: side, qty,
\* price_limit, status, fill_price, fill_qty.
RowKinds ==
    << [side |-> "BUY",  qty |-> 100, price_limit |-> Some(2400), status |-> "filled",
        fill_price |-> Some(2500), fill_qty |-> Some(100)],
       [side |-> "SELL", qty |-> 50,  price_limit |-> Some(2700), status |-> "filled",
        fill_price |-> Some(2600), fill_qty |-> Some(50)],
       [side |-> "BUY",  qty |-> 100, price_limit |-> None,       status |-> "filled",
        fill_price |-> Some(2500), fill_qty |-> Some(60)],
       [side |-> "SELL", qty |-> 50,  price_limit |-> Some(2700), status |-> "filled",
        fill_price |-> Some(2600), fill_qty |-> Some(20)],
       [side |-> "SELL", qty |-> 50,  price_limit |-> Some(2700), status |-> "filled",
        fill_price |-> Some(2600), fill_qty |-> None],
       [side |-> "BUY",  qty |-> 100, price_limit |-> None,       status |-> "placed",
        fill_price |-> None,       fill_qty |-> None],
       [side |-> "SELL", qty |-> 50,  price_limit |-> Some(2700), status |-> "acked",
        fill_price |-> None,       fill_qty |-> None],
       [side |-> "BUY",  qty |-> 100, price_limit |-> Some(2400), status |-> "cancelled",
        fill_price |-> None,       fill_qty |-> None],
       [side |-> "SELL", qty |-> 50,  price_limit |-> Some(2700), status |-> "settled",
        fill_price |-> Some(2600), fill_qty |-> Some(50)],
       [side |-> "BUY",  qty |-> 100, price_limit |-> Some(2400), status |-> "rejected",
        fill_price |-> None,       fill_qty |-> None] >>

\* The Order row with this id and batch made from a row kind.
OrderRow(id, batch_id, k) ==
    [id |-> id, portfolio_id |-> 1,
     broker |-> IF k.side = "BUY" THEN "zerodha-mock" ELSE "alpaca-mock",
     instrument_id |-> IF k.side = "BUY" THEN 1 ELSE 2,
     qty |-> k.qty, price_limit |-> k.price_limit, side |-> k.side,
     status |-> k.status, created_at |-> 0,
     executed_at |-> IF k.status \in {"filled", "settled"} THEN Some(0) ELSE None,
     ext_order_id |-> Some(<<"EXT", id>>),
     fill_price |-> k.fill_price, fill_qty |-> k.fill_qty,
     batch_id |-> Some(batch_id)]

\* The OrderBatch row with this id.
BatchRow(id) ==
    [id |-> id, user_id |-> 1, portfolio_id |-> 1, orders_json |-> <<OrderBuy>>,
     status |-> "processing",
     idempotency_key |-> request_key(Some(<<"batch", id>>), <<OrderBuy>>)]

\* Batch 1 holds up to MaxRows orders of any kinds (listed in kind order: the
\* aggregation does not depend on the order of the rows), batch 2 one filled
\* SELL, batch 3 no order; there is no batch 4.
MaxRows == 4
BatchTables ==
    {t \in UNION {[1..n -> DOMAIN RowKinds] : n \in 0..MaxRows} :
        \A i \in DOMAIN t : \A j \in DOMAIN t : i <= j => t[i] <= t[j]}

InitP ==
    /\ InitCalls
    /\ kafka_enabled = TRUE
    /\ batches = [b \in 1..3 |-> BatchRow(b)]
    /\ \E t \in BatchTables :
          /\ orders = [id \in 1..(Len(t) + 1) |->
                          IF id <= Len(t) THEN OrderRow(id, 1, RowKinds[t[id]])
                          ELSE OrderRow(id, 2, RowKinds[2])]
          /\ nextOrderId = Len(t) + 2

NextP == \E batch_id \in 1..4 : Reconcile(batch_id)

SpecP == InitP /\ [][NextP]_vars

\* connector.place_order called directly on the connector of broker_name:
\* the call is logged with the simulated fill registered for the instrument
\* when it was made.
MaxPlace == 3
ConnectorPlace(broker_name, instrument_id) ==
    /\ Len(plog) < MaxPlace
    /\ LET g == get_connector(connectors, broker_name)
           p == place_order(g.connectors[broker_name], broker_name, instrument_id, now)
       IN  /\ ~g.raised
           /\ connectors' = [g.connectors EXCEPT ![broker_name] = p.conn]
           /\ plog' = Append(plog,
                  [broker_name |-> broker_name, instrument_id |-> instrument_id,
                   registered |-> IF broker_name \in DOMAIN connectors
                                  THEN get_simulated_fill(connectors[broker_name],
                                                          instrument_id)
                                  ELSE {},
                   result |-> p.result])
    /\ UNCHANGED <<now, reqVars, dbVars, cache, kafkaVars, kafka_enabled,
                   lifeVars, vin, vres, rin, rres, gcall, report>>

\* The simulated fills registered: instrument, price, quantity.
SimulatedFills == {<<1, 2400, 100>>, <<1, 2500, 60>>, <<2, 2600, 50>>}

NextC ==
    \/ \E broker_name \in KnownBrokers, f \in SimulatedFills :
          SetSimulatedFill(broker_name, f[1], f[2], f[3])
    \/ \E broker_name \in KnownBrokers, instrument_id \in {1, 2} :
          ConnectorPlace(broker_name, instrument_id)

SpecC == Init /\ [][NextC]_vars

\* get_routing_strategy called directly on a list of orders.
MaxRoute == 3
RouteLists == UNION {[1..n -> {OrderBuy, OrderSell}] : n \in 1..MaxRoute}
PreferredBrokers ==
    {None, Some(""), Some("zerodha-mock"), Some("alpaca-mock"), Some("icici-mock")}

\* A routing call that picks the broker by instrument instead of by index.
Route_ByInstrument(os, preferred_broker) ==
    /\ rin' = [called |-> TRUE, orders |-> os, preferred_broker |-> preferred_broker]
    /\ rres' = [raised |-> FALSE,
                routing |-> [i \in DOMAIN os |->
                    [order_index |-> i - 1,
                     broker |-> IF os[i].instrument_id = 1 THEN "zerodha-mock"
                                ELSE "alpaca-mock",
                     reason |-> "Default routing strategy"]]]
    /\ UNCHANGED <<now, reqVars, dbVars, cache, kafkaVars, kafka_enabled,
                   connectors, lifeVars, vin, vres, gcall, report, plog>>

Route(os, preferred_broker) ==
    /\ rin' = [called |-> TRUE, orders |-> os, preferred_broker |-> preferred_broker]
    /\ rres' = [raised |-> FALSE,
                routing |-> get_routing_strategy(os, preferred_broker)]
    /\ UNCHANGED <<now, reqVars, dbVars, cache, kafkaVars, kafka_enabled,
                   connectors, lifeVars, vin, vres, gcall, report, plog>>

\* get_connector called directly: the registry after the call and whether
\* the call raised.
GetConnector(broker_name) ==
    /\ LET g == get_connector(connectors, broker_name)
       IN  /\ connectors' = g.connectors
           /\ gcall' = [called |-> TRUE, broker_name |-> broker_name,
                        raised |-> g.raised]
    /\ UNCHANGED <<now, reqVars, dbVars, cache, kafkaVars, kafka_enabled,
                   lifeVars, vin, vres, rin, rres, report, plog>>

BrokerNames == KnownBrokers \cup {"icici-mock"}

NextR ==
    \/ \E os \in RouteLists, preferred_broker \in PreferredBrokers :
          Route(os, preferred_broker)
    \/ \E broker_name \in BrokerNames : GetConnector(broker_name)

SpecR == Init /\ [][NextR]_vars

\* ================================================================ claims
Range(f) == {f[i] : i \in DOMAIN f}
ValidBody(body) == \A i \in DOMAIN body : validate_errors(body[i], None) = <<>>
SameKey(r1, r2) ==
    /\ r1 # r2
    /\ pc[r1] # "idle" /\ pc[r2] # "idle"
    /\ req[r1].key = req[r2].key
\* Both requests ran the idempotency check before either stored a response.
CheckedConcurrently(r1, r2) ==
    /\ hist[r1].checked /\ hist[r2].checked
    /\ r1 \notin hist[r2].storedAtCheck
    /\ r2 \notin hist[r1].storedAtCheck
\* The committed order rows of the batch request r created.
BatchOrders(r) == {o \in DOMAIN orders : orders[o].batch_id = Some(loc[r].batch_id)}

\* C1: a batch submitted a second time with the same idempotency key, after
\* the first submission has completed and stored its response, with the
\* cache reachable and the TTL not yet run out, gets exactly the first
\* response and causes no place_order call, no OrderBatch row and no Order row.
C1_SecondReturnsCached ==
    \A r1 \in Req, r2 \in Req :
        ( /\ SameKey(r1, r2)
          /\ r1 \in hist[r2].doneBefore
          /\ result[r1].kind = "ok"
          /\ hist[r1].stored /\ hist[r1].storeUp
          /\ pc[r2] = "done"
          /\ hist[r2].checkUp
          /\ hist[r2].checkAt * TickSeconds < hist[r1].storeAt * TickSeconds + ttl )
        => /\ result[r2] = result[r1]
           /\ hist[r2].placeCalls = 0
           /\ loc[r2].batch_id = 0
           /\ loc[r2].created = <<>>

\* C2: no update_status call moves an order backward along
\* placed -> acked -> filled -> settled; in particular a filled order never
\* becomes placed again.
Chain == <<"placed", "acked", "filled", "settled">>
Rank(st) == CHOOSE k \in DOMAIN Chain : Chain[k] = st
C2_ForwardOnly ==
    [][\A o \in DOMAIN orders :
         (o \in DOMAIN orders' /\ orders[o].status \in Range(Chain)
                               /\ orders'[o].status \in Range(Chain))
         => Rank(orders'[o].status) >= Rank(orders[o].status)]_vars

\* C3 as stated: two requests with the same key that both ran the
\* idempotency check before either stored its response both proceed to
\* connector.place_order.
C3_BothReachPlacement ==
    \A r1 \in Req, r2 \in Req :
        ( /\ SameKey(r1, r2)
          /\ CheckedConcurrently(r1, r2)
          /\ ValidBody(req[r1].body) /\ ValidBody(req[r2].body)
          /\ pc[r1] = "done" /\ pc[r2] = "done" )
        => hist[r1].placeCalls > 0 /\ hist[r2].placeCalls > 0

\* C3 as amended: of the requests bearing one idempotency key at most one
\* creates its batch and reaches connector.place_order; another one that
\* passed the check and validation ends at batch creation with the
\* integrity error of the unique idempotency-key index.
C3_OnlyOneProceeds ==
    \A r1 \in Req, r2 \in Req :
        SameKey(r1, r2)
        => /\ ~(hist[r1].placeCalls > 0 /\ hist[r2].placeCalls > 0)
           /\ ~(loc[r1].batch_id > 0 /\ loc[r2].batch_id > 0)
           /\ ( loc[r1].batch_id > 0 /\ pc[r2] = "done" /\ ValidBody(req[r2].body)
                => /\ result[r2].kind = "integrity_error"
                   /\ hist[r2].placeCalls = 0 )

C3_Witness ==
    \E r1 \in Req, r2 \in Req :
        /\ SameKey(r1, r2)
        /\ CheckedConcurrently(r1, r2)
        /\ hist[r1].placeCalls > 0
        /\ pc[r2] = "done"
        /\ result[r2].kind = "integrity_error"

\* C4: no two OrderBatch rows carry the same idempotency key.
C4_UniqueKeys ==
    \A i \in DOMAIN batches, j \in DOMAIN batches :
        i # j => batches[i].idempotency_key # batches[j].idempotency_key

C4_Witness ==
    \E r1 \in Req, r2 \in Req :
        /\ SameKey(r1, r2)
        /\ r1 \in hist[r2].doneBefore
        /\ loc[r1].batch_id > 0
        /\ batches[loc[r1].batch_id].idempotency_key = req[r2].key
        /\ result[r2].kind = "integrity_error"

\* C5 as stated: a submission whose idempotency check ran while the cache
\* was unavailable is treated as never-seen: if its orders are valid, a batch
\* is created and its orders are placed, even if its key was seen before.
C5_OutageAlwaysPlaces ==
    \A r \in Req :
        ( /\ hist[r].checked /\ ~hist[r].checkUp
          /\ pc[r] = "done"
          /\ ValidBody(req[r].body)
          /\ result[r].kind # "connector_error" )
        => /\ result[r].kind = "ok"
           /\ loc[r].batch_id > 0
           /\ hist[r].placeCalls = Len(req[r].body)

\* C5 as amended: a cache outage is never surfaced to the caller; a store
\* during the outage caches nothing; a submission whose check ran during the
\* outage is not served from the cache but validated, and if valid goes on
\* to batch creation, where either its batch is created and placement
\* starts or, when a batch already carries its key, the unique index
\* rejects it and no order is placed.
C5_FailOpen ==
    \A r \in Req :
        /\ result[r].kind # "cache_error"
        /\ (hist[r].stored /\ ~hist[r].storeUp
            => \A e \in cache : e.value # result[r])
        /\ (hist[r].checked /\ ~hist[r].checkUp
            => /\ ~hist[r].hit
               /\ (~ValidBody(req[r].body)
                   => pc[r] = "done" /\ result[r].kind = "validation")
               /\ (ValidBody(req[r].body) /\ pc[r] = "done"
                   => \/ /\ result[r].kind = "integrity_error"
                         /\ hist[r].placeCalls = 0
                         /\ loc[r].batch_id = 0
                         /\ \E j \in DOMAIN batches :
                               batches[j].idempotency_key = req[r].key
                      \/ /\ loc[r].batch_id > 0
                         /\ hist[r].placeCalls > 0))

C5_Witness ==
    \E r1 \in Req, r2 \in Req :
        /\ SameKey(r1, r2)
        /\ loc[r1].batch_id > 0
        /\ hist[r2].checked /\ ~hist[r2].checkUp
        /\ pc[r2] = "done"
        /\ result[r2].kind = "integrity_error"
        /\ \E r \in Req : hist[r].checked /\ ~hist[r].checkUp /\ hist[r].stored
                          /\ ~hist[r].storeUp /\ result[r].kind = "ok"

\* C6: validate returns valid exactly when no rule is violated, and
\* otherwise reports every violated rule; qty=0, side=HOLD, price_limit=-5
\* yields the three corresponding violations.
ViolatedRules(o, lot) ==
    (IF o.qty < min_lot_size THEN {"min_lot"} ELSE {})
    \cup (IF \E y \in o.price_limit : y <= 0 THEN {"price_not_positive"} ELSE {})
    \cup (IF \E y \in o.price_limit : o.qty * y > max_order_value
          THEN {"max_order_value"} ELSE {})
    \cup (IF o.side # "BUY" /\ o.side # "SELL" THEN {"invalid_side"} ELSE {})
    \cup (IF \/ o.price_limit = None /\ o.qty * mock_price > margin_limit
             \/ \E y \in o.price_limit : o.qty * y > margin_limit
          THEN {"margin"} ELSE {})
    \cup (IF \E y \in lot : \A k \in 0 .. o.qty : k * y # o.qty
          THEN {"lot_multiple"} ELSE {})
C6_AllViolationsReported ==
    vin.order # NoInput
    => /\ vres.valid <=> ViolatedRules(vin.order, vin.instrument_data) = {}
       /\ ViolatedRules(vin.order, vin.instrument_data) \subseteq Range(vres.errors)
       /\ (vin.order.qty = 0 /\ vin.order.side = "HOLD"
           /\ vin.order.price_limit = Some(-5)
           => {"min_lot", "invalid_side", "price_not_positive"}
                 \subseteq Range(vres.errors))

C6_Witness ==
    /\ vin.order.qty = 0 /\ vin.order.side = "HOLD"
    /\ vin.order.price_limit = Some(-5)
    /\ Len(vres.errors) = 3
    /\ ~vres.valid

\* C7: the validation error of a batch submission lists the violations of
\* every invalid order of the batch.
C7_AllBatchProblems ==
    \A r \in Req :
        result[r].kind = "validation"
        => \A i \in DOMAIN req[r].body :
              Range(validate_errors(req[r].body[i], None)) \subseteq Range(result[r].detail)

\* C8: a failing place_order call does not abort the batch: the submission
\* still returns a response and every order of the batch has a persisted row.
C8_FailureIsolated ==
    \A r \in Req :
        pc[r] = "done" /\ loc[r].batch_id > 0
        => /\ result[r].kind = "ok"
           /\ Cardinality(BatchOrders(r)) = Len(req[r].body)

\* C9: every published event reports an order whose row is committed.
C9_EventAfterCommit ==
    \A e \in events : e.order_id \in DOMAIN orders

\* C10: publish_order_event never raises: no submission and no
\* update_status call fails because of publishing, the rows a submission
\* has written stay in its transaction and are committed, and the status an
\* update_status call set stays set.
C10_PublishNeverRaises ==
    /\ \A r \in Req :
          /\ result[r].kind # "publish_error"
          /\ pc[r] = "commit" => Cardinality(DOMAIN txn[r]) = Len(req[r].body)
          /\ pc[r] = "done" => /\ result[r].kind = "ok"
                               /\ Cardinality(BatchOrders(r)) = Len(req[r].body)
    /\ lastCall.outcome # "publish_error"
    /\ lastCall.op = "update_status"
       => orders[lastCall.order_id].status = lastCall.new_status

C10_Witness ==
    /\ kafka_enabled
    /\ kafka_producer = "started"
    /\ lastCall.op = "update_status" /\ lastCall.outcome = "ok"
    /\ orders[lastCall.order_id].status = lastCall.new_status
    /\ \A e \in events : ~(e.order_id = lastCall.order_id /\ e.status = lastCall.new_status)
    /\ \E r \in Req : pc[r] = "done" /\ result[r].kind = "ok"
                      /\ \E o \in BatchOrders(r) : \A e \in events : e.order_id # o

\* The lifecycle call just made (update_status or simulate_fill) changed order id.
Applied(id) ==
    /\ nUpdates' = nUpdates + 1
    /\ lastCall'.order_id = id
    /\ lastCall'.outcome \in {"ok", "publish_error"}

\* C11: a lifecycle call whose new status is filled sets the order's
\* executed_at to the time of the call; a call with any other new status, and
\* every other step, leaves executed_at as it was; and an order enters the
\* committed table with executed_at set only when it was placed as filled.
\* Hence executed_at is non-null only for orders that have entered filled.
C11_ExecutedAtIffFilled ==
    [][\A id \in DOMAIN orders' :
          IF id \in DOMAIN orders
          THEN IF Applied(id) /\ lastCall'.new_status = "filled"
               THEN orders'[id].executed_at = Some(now)
               ELSE orders'[id].executed_at = orders[id].executed_at
          ELSE orders'[id].executed_at # None => orders'[id].status = "filled"]_vars

\* An order stamped on entering filled that has since moved on to settled,
\* its executed_at untouched by the later update.
C11_Witness ==
    \E id \in DOMAIN orders :
        /\ orders[id].status = "settled"
        /\ orders[id].executed_at # None
        /\ lastCall.op = "update_status"
        /\ lastCall.new_status = "settled"
        /\ lastCall.outcome = "ok"

\* C12: in every reachable state every committed order has fill_price set
\* exactly when fill_qty is set.
C12_FillFieldsTogether ==
    \A id \in DOMAIN orders :
        (orders[id].fill_price = None) <=> (orders[id].fill_qty = None)

\* C13: once an order's status is cancelled or rejected, no later step
\* (update_status, acknowledge, process_fill, simulate_fill) changes it.
C13_TerminalStatuses ==
    [][\A id \in DOMAIN orders :
          (orders[id].status \in {"cancelled", "rejected"} /\ id \in DOMAIN orders')
          => orders'[id].status = orders[id].status]_vars

\* C14: for any list of orders and any preferred broker that is a known
\* broker, get_routing_strategy returns one decision per order, each with the
\* preferred broker, whatever the order's index.
C14_PreferredBrokerRoutesAll ==
    (rin.called /\ rin.preferred_broker # None
                /\ Val(rin.preferred_broker) \in KnownBrokers)
    => /\ ~rres.raised
       /\ DOMAIN rres.routing = DOMAIN rin.orders
       /\ \A i \in DOMAIN rin.orders :
             /\ rres.routing[i].order_index = i - 1
             /\ rres.routing[i].broker = Val(rin.preferred_broker)

\* Three orders routed with alpaca-mock preferred: indexes 0 and 2, which the
\* default strategy sends to zerodha-mock, go to alpaca-mock.
C14_Witness ==
    /\ rin.called
    /\ rin.preferred_broker = Some("alpaca-mock")
    /\ Len(rin.orders) = 3
    /\ \A i \in 1..3 : rres.routing[i].broker = "alpaca-mock"

\* C20: a broker name that is not a known broker is a fatal error and is
\* never silently replaced by a default: get_connector with such a name raises
\* and registers nothing, and routing asked for such a broker fails instead of
\* returning decisions.
C20_UnknownBrokerFatal ==
    /\ (gcall.called /\ gcall.broker_name \notin KnownBrokers)
       => (gcall.raised /\ gcall.broker_name \notin DOMAIN connectors)
    /\ (rin.called /\ rin.preferred_broker # None
                   /\ Val(rin.preferred_broker) \notin KnownBrokers \cup {""})
       => rres.raised

\* The orders referencing the batch of the last reconcile request, those of
\* them in one of the statuses sts, and the filled ones of one side.
Referencing == {id \in DOMAIN orders : orders[id].batch_id = Some(report.batch_id)}
WithStatus(sts) == {id \in Referencing : orders[id].status \in sts}
FilledSide(side) == {id \in WithStatus({"filled"}) : orders[id].side = side}
FillValue(ids) ==
    SumOf([id \in ids |-> OrElse(orders[id].fill_price, 0)
                           * OrElse(orders[id].fill_qty, 0)])

\* C15: a report counts total_orders = the orders referencing the batch,
\* filled_orders = those filled, pending_orders = those placed or acked,
\* cancelled_orders = those cancelled; settled and rejected orders count
\* toward total_orders only.
C15_ReconcileCounts ==
    report.kind = "report"
    => /\ report.total_orders = Cardinality(Referencing)
       /\ report.filled_orders = Cardinality(WithStatus({"filled"}))
       /\ report.pending_orders = Cardinality(WithStatus({"placed", "acked"}))
       /\ report.cancelled_orders = Cardinality(WithStatus({"cancelled"}))
       /\ report.total_orders =
             report.filled_orders + report.pending_orders + report.cancelled_orders
             + Cardinality(WithStatus({"settled", "rejected"}))

\* The batch with 2 filled, 1 placed and 1 cancelled order reports 2/1/1/4.
C15_Witness ==
    /\ report.kind = "report"
    /\ Cardinality(WithStatus({"filled"})) = 2
    /\ Cardinality(WithStatus({"placed"})) = 1
    /\ Cardinality(WithStatus({"cancelled"})) = 1
    /\ report.filled_orders = 2
    /\ report.pending_orders = 1
    /\ report.cancelled_orders = 1
    /\ report.total_orders = 4

\* C16: a report carries actual_pnl only when the batch has a filled BUY and
\* a filled SELL, and then it is the sum of fill_price*fill_qty over the filled
\* SELL orders minus that sum over the filled BUY orders (a missing fill field
\* counting as 0); otherwise actual_pnl is null, not zero.
C16_ActualPnl ==
    report.kind = "report"
    => IF FilledSide("BUY") # {} /\ FilledSide("SELL") # {}
       THEN report.actual_pnl
               = Some(FillValue(FilledSide("SELL")) - FillValue(FilledSide("BUY")))
       ELSE report.actual_pnl = None

\* One filled BUY 100@2500 and one filled SELL 50@2600 give -120000.
C16_Witness ==
    /\ report.kind = "report"
    /\ \E b \in Referencing, x \in Referencing :
          /\ Referencing = {b, x}
          /\ orders[b].side = "BUY" /\ orders[b].status = "filled"
          /\ orders[b].fill_price = Some(2500) /\ orders[b].fill_qty = Some(100)
          /\ orders[x].side = "SELL" /\ orders[x].status = "filled"
          /\ orders[x].fill_price = Some(2600) /\ orders[x].fill_qty = Some(50)
    /\ report.actual_pnl = Some(0 - 120000)

\* C17 as stated: when P&L is computed, expected_pnl is the sum of
\* price_limit*fill_qty over the filled SELL orders minus that sum over the
\* filled BUY orders.
LimitTimesFillQty(ids) ==
    SumOf([id \in ids |-> OrElse(orders[id].price_limit, 0)
                           * OrElse(orders[id].fill_qty, 0)])
C17_ExpectedUsesFillQty ==
    (report.kind = "report" /\ report.actual_pnl # None)
    => report.expected_pnl
          = Some(LimitTimesFillQty(FilledSide("SELL"))
                 - LimitTimesFillQty(FilledSide("BUY")))

\* C17 as the code has it: when P&L is computed, expected_pnl is the sum of
\* price_limit*qty (the ordered quantity; a null price_limit counting as 0)
\* over the filled SELL orders minus that sum over the filled BUY orders.
LimitTimesQty(ids) ==
    SumOf([id \in ids |-> OrElse(orders[id].price_limit, 0) * orders[id].qty])
C17_ExpectedUsesQty ==
    (report.kind = "report" /\ report.actual_pnl # None)
    => report.expected_pnl
          = Some(LimitTimesQty(FilledSide("SELL")) - LimitTimesQty(FilledSide("BUY")))

\* A report over a batch with a partially filled order, where the two sums
\* differ.
C17_Witness ==
    /\ report.kind = "report"
    /\ report.expected_pnl # None
    /\ \E id \in WithStatus({"filled"}) :
          /\ orders[id].price_limit # None
          /\ orders[id].fill_qty # None
          /\ orders[id].fill_qty # Some(orders[id].qty)
    /\ LimitTimesQty(FilledSide("SELL")) - LimitTimesQty(FilledSide("BUY"))
          # LimitTimesFillQty(FilledSide("SELL")) - LimitTimesFillQty(FilledSide("BUY"))

\* C18: reconcile answers not-found, never a report, when no batch has the
\* id or no order references the batch.
C18_NotFound ==
    (report.kind # "none"
       /\ (report.batch_id \notin DOMAIN batches \/ Referencing = {}))
    => report.kind = "not_found"

\* An existing batch that no order references was reconciled.
C18_Witness ==
    /\ report.kind = "not_found"
    /\ report.batch_id \in DOMAIN batches
    /\ Referencing = {}

\* C19: every place_order call on a mock connector returns filled with
\* exactly the registered fill price and quantity when a simulated fill was
\* registered for the instrument, and otherwise placed with no fill price or
\* quantity; and its external order id differs from that of every earlier
\* call on the same connector.
C19_MockPlaceOrder ==
    \A j \in DOMAIN plog :
        /\ plog[j].result.ext_order_id # None
        /\ IF plog[j].registered # {}
           THEN /\ plog[j].result.status = "filled"
                /\ plog[j].result.fill_price
                     = Some(Val(plog[j].registered).fill_price)
                /\ plog[j].result.fill_qty
                     = Some(Val(plog[j].registered).fill_qty)
           ELSE /\ plog[j].result.status = "placed"
                /\ plog[j].result.fill_price = None
                /\ plog[j].result.fill_qty = None
        /\ \A i \in 1..(j - 1) :
              plog[i].broker_name = plog[j].broker_name
              => plog[i].result.ext_order_id # plog[j].result.ext_order_id

\* One connector placed an order, then one filled at the registered fill
\* 60@2500, then one for an instrument without a registered fill.
C19_Witness ==
    /\ Len(plog) = 3
    /\ \A j \in 1..3 : plog[j].broker_name = "alpaca-mock"
    /\ plog[1].result.status = "placed"
    /\ plog[2].result.status = "filled"
    /\ plog[2].result.fill_price = Some(2500)
    /\ plog[2].result.fill_qty = Some(60)
    /\ plog[3].result.status = "placed"
    /\ plog[3].instrument_id # plog[2].instrument_id

\* The entry of fills that simulate_fill uses for order_id: the first one
\* naming the order.
EntryFor(order_id, fills) ==
    LET hits == {k \in DOMAIN fills : fills[k].order_id = order_id}
    IN  IF hits = {} THEN {} ELSE {fills[CHOOSE k \in hits : \A j \in hits : k <= j]}
HasPricedEntry(order_id, fills) ==
    /\ EntryFor(order_id, fills) # {}
    /\ Val(EntryFor(order_id, fills)).fill_price \notin {None, Some(0)}
RequestedQty(order_id, fills) ==
    IF Val(EntryFor(order_id, fills)).has_qty
    THEN Val(EntryFor(order_id, fills)).fill_qty
    ELSE Some(orders[order_id].qty)

\* C21: a simulate_fill request for an existing order whose fills hold an
\* entry for it with a fill price leaves the order filled with the requested
\* fill_price and fill_qty (the order's qty when the entry omits fill_qty),
\* answers with status filled and the same values, and emits order.filled.
C21_SimulateFillApplies ==
    [][\A order_id \in DOMAIN orders : \A fills \in FillRequests(order_id) :
          (SimulateFill(order_id, fills, "ok", TRUE) /\ HasPricedEntry(order_id, fills))
          => /\ orders'[order_id].status = "filled"
             /\ orders'[order_id].fill_price = Val(EntryFor(order_id, fills)).fill_price
             /\ orders'[order_id].fill_qty = RequestedQty(order_id, fills)
             /\ lastCall'.outcome = "ok"
             /\ lastCall'.new_status = "filled"
             /\ lastCall'.fill_price = orders'[order_id].fill_price
             /\ lastCall'.fill_qty = orders'[order_id].fill_qty
             /\ [event_type |-> "order.filled", order_id |-> order_id,
                 status |-> "filled"] \in events']_vars

\* The columns of an order row that no update may touch.
Identity(o) ==
    <<o.id, o.portfolio_id, o.broker, o.instrument_id, o.qty, o.price_limit,
      o.side, o.batch_id, o.created_at>>

\* C22: no step removes an order; a step that is not a lifecycle call leaves
\* every existing order as it is; a lifecycle call on order X leaves X's
\* portfolio, broker, instrument, qty, price_limit, side and batch_id, every
\* other order and every batch unchanged.
C22_OrdersAppendOnly ==
    [][/\ DOMAIN orders \subseteq DOMAIN orders'
       /\ \A id \in DOMAIN orders : Identity(orders'[id]) = Identity(orders[id])
       /\ nUpdates' = nUpdates
          => \A id \in DOMAIN orders : orders'[id] = orders[id]
       /\ nUpdates' # nUpdates
          => /\ batches' = batches
             /\ DOMAIN orders' = DOMAIN orders
             /\ \A id \in DOMAIN orders :
                   id # lastCall'.order_id => orders'[id] = orders[id]]_vars

\* Of two orders, the first was just updated to filled with a fill and the
\* second is still as it was placed.
C22_Witness ==
    /\ DOMAIN orders = {1, 2}
    /\ lastCall.op = "update_status"
    /\ lastCall.order_id = 1
    /\ lastCall.outcome = "ok"
    /\ orders[1].status = "filled"
    /\ orders[1].fill_price # None
    /\ orders[2].status = "placed"
    /\ orders[2].fill_price = None
    /\ orders[2].executed_at = None

\* Position of a batch status along pending -> processing -> completed|failed.
BatchOrder(st) == IF st = "pending" THEN 1 ELSE IF st = "processing" THEN 2 ELSE 3
\* A response is cached under the key of every submission that ran to its
\* end with the cache reachable.
CachedAfterSuccess ==
    \A r \in Req :
        (pc[r] = "done" /\ result[r].kind = "ok" /\ hist[r].storeUp)
        => \E x \in cache : x.key = req[r].key
\* A cached response belongs to a batch that is processing and whose orders
\* all have their row.
CachedOnlyWhenPlaced ==
    \A x \in cache :
        \E b \in DOMAIN batches :
            /\ batches[b].idempotency_key = x.key
            /\ batches[b].status = "processing"
            /\ Cardinality({o \in DOMAIN orders : orders[o].batch_id = Some(b)})
                  = Len(batches[b].orders_json)

\* C23: a submission runs lookup, validation, batch created pending, orders
\* placed and persisted, batch marked processing, response cached under the
\* key: a completed submission has its response cached, a cached response
\* exists only for a processing batch with all its order rows, and no batch
\* status moves backward.
C23_SubmissionSteps ==
    [][/\ CachedAfterSuccess'
       /\ CachedOnlyWhenPlaced'
       /\ \A b \in DOMAIN batches :
             /\ b \in DOMAIN batches'
             /\ BatchOrder(batches'[b].status) >= BatchOrder(batches[b].status)]_vars

\* C24: in a batch submission an order that names a known broker is routed to
\* and placed with that broker.
C24_PreferenceHonoured ==
    \A r \in Req : \A i \in DOMAIN req[r].body :
        (req[r].body[i].broker # None /\ Val(req[r].body[i].broker) \in KnownBrokers)
        => /\ i \in DOMAIN loc[r].routing
              => loc[r].routing[i].broker = Val(req[r].body[i].broker)
           /\ i \in DOMAIN loc[r].created
              => loc[r].created[i].broker = Val(req[r].body[i].broker)

\* C25: every published lifecycle event has the type order.<status> of the
\* status carried in its payload, the status the order was just given; also
\* the first event of an order that the connector returned as filled.
C25_EventTypeMatchesStatus ==
    \A e \in events : e.event_type = EventType(e.status)

\* The last routing call had no preferred broker, or one that is not known.
DefaultCase ==
    /\ rin.called
    /\ (rin.preferred_broker = None \/ Val(rin.preferred_broker) \notin KnownBrokers)
Alternates ==
    /\ DOMAIN rres.routing = DOMAIN rin.orders
    /\ \A i \in DOMAIN rin.orders :
          /\ rres.routing[i].order_index = i - 1
          /\ rres.routing[i].broker =
                IF (i - 1) % 2 = 0 THEN "zerodha-mock" ELSE "alpaca-mock"

\* C26: without a known preferred broker the routing alternates by index,
\* even indexes to zerodha-mock and odd ones to alpaca-mock, each decision
\* carrying its index; and a call returns the decisions of the call before it
\* when both are of this kind and have the same number of orders.
C26_DefaultAlternates ==
    [][DefaultCase'
       => /\ Alternates'
          /\ (DefaultCase /\ Len(rin'.orders) = Len(rin.orders))
             => rres'.routing = rres.routing]_vars

\* Three orders routed with an unknown preferred broker: zerodha-mock,
\* alpaca-mock, zerodha-mock, whatever the orders' instruments.
C26_Witness ==
    /\ rin.called
    /\ rin.preferred_broker = Some("icici-mock")
    /\ rin.orders = <<OrderSell, OrderSell, OrderBuy>>
    /\ rres.routing[1].broker = "zerodha-mock"
    /\ rres.routing[2].broker = "alpaca-mock"
    /\ rres.routing[3].broker = "zerodha-mock"

\* place_order calls made so far on the connector of broker b.
PlaceCount(b) == IF b \in DOMAIN connectors THEN connectors[b].counter ELSE 0

\* C27: a successful submission of n orders has made n place_order calls, one
\* per order on the connector of that order's routing decision, and created
\* n order rows; its response lists the n orders in request order, each with
\* the request's instrument, qty and side, the routed broker, the new batch's
\* id and the status and external id the connector returned.
C27_OneCallOneRowPerOrder ==
    \A r \in Req :
        (pc[r] = "done" /\ result[r].kind = "ok")
        => /\ hist[r].placeCalls = Len(req[r].body)
           /\ \A b \in KnownBrokers :
                 PlaceCount(b) = Cardinality({i \in DOMAIN req[r].body :
                                                 result[r].proposed_routing[i].broker = b})
           /\ Cardinality(BatchOrders(r)) = Len(req[r].body)
           /\ result[r].batch_id = Len(batches)
           /\ DOMAIN result[r].orders = DOMAIN req[r].body
           /\ \A i \in DOMAIN req[r].body :
                 LET o == result[r].orders[i]
                 IN  /\ o.instrument_id = req[r].body[i].instrument_id
                     /\ o.qty = req[r].body[i].qty
                     /\ o.side = req[r].body[i].side
                     /\ o.broker = result[r].proposed_routing[i].broker
                     /\ o.batch_id = Some(result[r].batch_id)
                     /\ o.status = loc[r].placed[i].status
                     /\ o.ext_order_id = loc[r].placed[i].ext_order_id
                     /\ o.ext_order_id # None
                     /\ o.id \in BatchOrders(r)
                     /\ orders[o.id] = o
                     /\ \A j \in DOMAIN req[r].body : j < i => result[r].orders[j].id < o.id

\* A submission of a BUY and a SELL answered with both orders, the first
\* placed with zerodha-mock and the second with alpaca-mock.
C27_Witness ==
    /\ pc[1] = "done"
    /\ result[1].kind = "ok"
    /\ req[1].body = <<OrderBuy, OrderSell>>
    /\ Len(result[1].orders) = 2
    /\ result[1].orders[1].broker = "zerodha-mock"
    /\ result[1].orders[2].broker = "alpaca-mock"
    /\ PlaceCount("zerodha-mock") = 1
    /\ PlaceCount("alpaca-mock") = 1

\* C28: a submission with an order that fails validation has no effect: the
\* step that rejects it leaves the batches, the orders, the connectors, the
\* events and the cache as they were, the request has created nothing and
\* called no connector, and a later valid submission under the same key is
\* processed as a new one.
C28_InvalidBatchNoEffect ==
    [][\A r \in Req :
          /\ (result'[r].kind = "validation" /\ result[r].kind # "validation")
             => /\ ~ValidBody(req[r].body)
                /\ UNCHANGED <<batches, orders, txn, nextOrderId, connectors,
                               events, kafka_producer, cache>>
          /\ result'[r].kind = "validation"
             => /\ hist'[r].placeCalls = 0
                /\ loc'[r].batch_id = 0
                /\ loc'[r].created = <<>>
                /\ \A b \in DOMAIN batches' :
                      batches'[b].idempotency_key = req'[r].key
                      => \E q \in Req : q # r /\ loc'[q].batch_id = b
          /\ \A q \in Req :
                ( /\ q # r
                  /\ result[r].kind = "validation"
                  /\ req[q].key = req[r].key
                  /\ \A p \in Req \ {r} : p # q => req[p].key # req[r].key
                  /\ pc[q] = "create" /\ pc'[q] # "create" )
                => (pc'[q] = "place" /\ loc'[q].batch_id = Len(batches'))]_vars

\* A submission under key k1 was rejected for a margin violation and a later
\* valid submission under k1 ran to a success response with its order row.
C28_Witness ==
    \E r \in Req, q \in Req :
        /\ result[r].kind = "validation"
        /\ req[r].header = Some("k1")
        /\ req[q].header = Some("k1")
        /\ r \in hist[q].doneBefore
        /\ pc[q] = "done"
        /\ result[q].kind = "ok"
        /\ Cardinality(BatchOrders(q)) = 1

\* C29: a supplied key is used as it is and a key is derived from the body
\* only when none is supplied, identical bodies deriving the same key; and a
\* submission under a supplied key whose earlier submission completed and
\* cached its response gets that response and places nothing, also when its
\* body differs from the earlier one.
C29_KeyOnlyCompared ==
    /\ \A r \in Req :
          pc[r] # "idle"
          => IF req[r].header # None
             THEN req[r].key = [hdr |-> req[r].header, sha |-> None]
             ELSE req[r].key = generate_idempotency_key(req[r].body)
    /\ \A r1 \in Req, r2 \in Req :
          ( /\ pc[r1] # "idle" /\ pc[r2] # "idle"
            /\ req[r1].header = None /\ req[r2].header = None
            /\ req[r1].body = req[r2].body )
          => req[r1].key = req[r2].key
    /\ \A r1 \in Req, r2 \in Req :
          ( /\ SameKey(r1, r2)
            /\ req[r2].header # None
            /\ req[r1].body # req[r2].body
            /\ r1 \in hist[r2].doneBefore
            /\ result[r1].kind = "ok"
            /\ hist[r1].storeUp
            /\ pc[r2] = "done"
            /\ hist[r2].checkUp )
          => /\ result[r2] = result[r1]
             /\ hist[r2].placeCalls = 0

\* C30: a simulate_fill request that fails (unknown order: not found; no
\* entry for the order, or an entry without fill price: client error) leaves
\* every order and the published events as they were.
C30_FailedSimulateFillNoEffect ==
    [][\A order_id \in DOMAIN orders \cup {nextOrderId} :
          \A fills \in FillRequests(order_id) :
             ( /\ SimulateFill(order_id, fills, "ok", TRUE)
               /\ (order_id \notin DOMAIN orders \/ ~HasPricedEntry(order_id, fills)) )
             => /\ lastCall'.outcome =
                      IF order_id \notin DOMAIN orders THEN "not_found"
                      ELSE IF EntryFor(order_id, fills) = {} THEN "no_fill_data"
                      ELSE "fill_price_required"
                /\ orders' = orders
                /\ events' = events]_vars

\* A simulate_fill whose entry has no fill price was refused for an order
\* that exists and is still as placed.
C30_Witness ==
    /\ lastCall.op = "simulate_fill"
    /\ lastCall.outcome = "fill_price_required"
    /\ lastCall.order_id \in DOMAIN orders
    /\ orders[lastCall.order_id].status = "placed"
    /\ orders[lastCall.order_id].fill_qty = None
    /\ events = {[event_type |-> "order.placed", order_id |-> lastCall.order_id,
                  status |-> "placed"]}
====
